---- MODULE Spec2Model ----
(***************************************************************************)
(* A model of the e-mail bot of src/main.py: the Fernet key set-up that    *)
(* runs when a process imports the module, the reading and decryption of a *)
(* user's stored mailbox configuration, the SMTP session of send_email,    *)
(* the usage counters, and the dispatch of chat events to the registered   *)
(* handlers.  The persistent store is the Redis instance behind            *)
(* redis_client; it is shared by every process started against it.         *)
(***************************************************************************)
EXTENDS Integers, Sequences, FiniteSets, TLC

VARIABLES
    fernet_key,     \* the store's 'fernet_key' entry
    environ,        \* per process: the value of ENCRYPTION_KEY
    pc,             \* per process: where it is in setup_encryption
    key,            \* per process: the local `key` of setup_encryption
    cipher_suite,   \* per process: the module-level cipher_suite
    ncalls,         \* per process: calls of setup_encryption started
    generated,      \* number of keys Fernet.generate_key() has produced
    prev,           \* per process: what its previous call returned
    foreign,        \* per process: another process wrote the entry since its first call began
    user_hash,      \* the store's hash at user:<id>:email_config, per user
    temp,           \* the store's hash at temp:<id>, per user
    stats,          \* the store's counters bot:stats:<metric>
    last,           \* the most recent handler invocation and what it did
    accepted,       \* number of messages the mail server has accepted
    calls,          \* handler invocations so far
    flow            \* per user: well-formed set-up inputs delivered since "configure"

vars == << fernet_key, environ, pc, key, cipher_suite, ncalls, generated,
           prev, foreign, user_hash, temp, stats, last, accepted, calls, flow >>

keyVars == << fernet_key, environ, pc, key, cipher_suite, ncalls, generated,
              prev, foreign >>

botVars == << user_hash, temp, stats, last, accepted, calls, flow >>

(***************************************************************************)
(* Bounds of the model.                                                    *)
(***************************************************************************)
MaxSetup == 2       \* calls of setup_encryption per process
MaxCalls == 2       \* handler invocations in one behaviour

Procs == {1, 2}     \* processes started against the one store
Users == {42}       \* chat users

(***************************************************************************)
(* Keys.  A key is a pair <<origin, n>>; two keys are the same key exactly *)
(* when the pairs are equal.  Nil is Python's None, Empty the empty        *)
(* string, Bad a value Fernet() rejects.                                   *)
(***************************************************************************)
Nil == << "nil", 0 >>
Empty == << "empty", 0 >>
Bad == << "bad", 0 >>
StoredKey == << "stored", 0 >>
EnvKey(n) == << "env", n >>
GenKey(n) == << "gen", n >>

\* Python truthiness of a bytes/str/None value
Truthy(v) == v # Nil /\ v # Empty

\* Fernet(key) raises ValueError unless key is 32 url-safe base64 bytes
Fernet(k) == IF k[1] \in {"stored", "env", "gen"}
               THEN [raised |-> FALSE, key |-> k]
               ELSE [raised |-> TRUE, key |-> Nil]

\* Fernet.generate_key(): a key no one has seen before
generate_key == GenKey(generated + 1)

(***************************************************************************)
(* setup_encryption, lines 44-58, after redis_client.get returned `k`:     *)
(* the key to build the cipher from and the value to write to the store    *)
(* (Nil: no write).                                                        *)
(***************************************************************************)
setup_no_persist(k, env, new_key) ==
    IF Truthy(k) THEN [use |-> k, set |-> Nil, fresh |-> FALSE]
    ELSE IF Truthy(env) THEN [use |-> env, set |-> Nil, fresh |-> FALSE]
    ELSE [use |-> new_key, set |-> Nil, fresh |-> TRUE]

setup_encryption(k, env, new_key) ==
    IF Truthy(k) THEN [use |-> k, set |-> Nil, fresh |-> FALSE]
    ELSE IF Truthy(env) THEN [use |-> env, set |-> Nil, fresh |-> FALSE]
    ELSE [use |-> new_key, set |-> new_key, fresh |-> TRUE]

\* line 60 (and any later call): the process enters setup_encryption
SetupCall(p) ==
    /\ pc[p] \in {"init", "done", "failed"}
    /\ ncalls[p] < MaxSetup
    /\ pc' = [pc EXCEPT ![p] = "get"]
    /\ ncalls' = [ncalls EXCEPT ![p] = @ + 1]
    /\ prev' = [prev EXCEPT ![p] = IF pc[p] = "done" THEN cipher_suite[p] ELSE Nil]
    /\ foreign' = [foreign EXCEPT ![p] = IF ncalls[p] = 0 THEN FALSE ELSE @]
    /\ UNCHANGED << fernet_key, environ, key, cipher_suite, generated >>
    /\ UNCHANGED botVars

\* line 46: key = redis_client.get('fernet_key'); the round trip may raise
SetupGet(p) ==
    /\ pc[p] = "get"
    /\ \E store_ok \in BOOLEAN :
          IF store_ok
            THEN /\ key' = [key EXCEPT ![p] = fernet_key]
                 /\ pc' = [pc EXCEPT ![p] = "decide"]
            ELSE /\ key' = key
                 /\ pc' = [pc EXCEPT ![p] = "failed"]
    /\ UNCHANGED << fernet_key, environ, cipher_suite, ncalls, generated, prev, foreign >>
    /\ UNCHANGED botVars

\* lines 47-58: choose the key, persist a generated one, build the cipher
SetupFinish(p) ==
    /\ pc[p] = "decide"
    /\ \E store_ok \in BOOLEAN :
        LET r == setup_encryption(key[p], environ[p], generate_key)
            f == Fernet(r.use)
            writes == r.set # Nil
            ok == (writes => store_ok) /\ ~f.raised
        IN  /\ generated' = IF r.fresh THEN generated + 1 ELSE generated
            /\ fernet_key' = IF writes /\ store_ok THEN r.set ELSE fernet_key
            /\ foreign' = IF writes /\ store_ok
                            THEN [q \in Procs |-> IF q = p THEN foreign[q] ELSE TRUE]
                            ELSE foreign
            /\ cipher_suite' = IF ok THEN [cipher_suite EXCEPT ![p] = f.key]
                                     ELSE cipher_suite
            /\ pc' = [pc EXCEPT ![p] = IF ok THEN "done" ELSE "failed"]
    /\ UNCHANGED << environ, key, ncalls, prev >>
    /\ UNCHANGED botVars

(***************************************************************************)
(* Encryption functions, lines 73-85.  A token remembers the key it was    *)
(* made under; anything else handed to decrypt is not a token.             *)
(***************************************************************************)
Token(k, plaintext) == [kind |-> "token", key |-> k, pt |-> plaintext]
Garbage == [kind |-> "garbage", key |-> Nil, pt |-> ""]

encrypt_data(k, data) == Token(k, data)

\* cipher_suite.decrypt raises InvalidToken unless the token was made under k
decrypt_data(k, encrypted_data) ==
    IF encrypted_data.kind = "token" /\ encrypted_data.key = k
      THEN [raised |-> "", value |-> encrypted_data.pt]
      ELSE [raised |-> "InvalidToken", value |-> ""]

(***************************************************************************)
(* The stored hashes.  A hash is a function from the field names present   *)
(* to their values; the empty function is what hgetall returns for a key   *)
(* that does not exist.                                                    *)
(***************************************************************************)
EmptyHash == << >>
HasField(hash, f) == f \in DOMAIN hash
Get(hash, f, default) == IF HasField(hash, f) THEN hash[f] ELSE default

\* what the store may hold for a user when a process starts: every field
\* present or absent, credentials written under either generated key
K1 == GenKey(1)
K2 == GenKey(2)
ServerOpts == { EmptyHash, "smtp_server" :> "", "smtp_server" :> "smtp.example.com" }
PortOpts == { "smtp_port" :> "587", "smtp_port" :> "abc" }
CredOpts == { EmptyHash,
              "password" :> encrypt_data(K1, "secret"),
              ("email" :> encrypt_data(K1, "a@example.com"))
                  @@ ("password" :> encrypt_data(K1, "secret")),
              ("email" :> encrypt_data(K2, "a@example.com"))
                  @@ ("password" :> encrypt_data(K2, "secret")),
              ("email" :> Garbage) @@ ("password" :> encrypt_data(K1, "secret")) }
ModeOpts == { EmptyHash, "mode" :> "unset", "mode" :> "configured" }
StoredHashes ==
    { EmptyHash } \cup
    { s @@ p @@ c @@ m : s \in ServerOpts, p \in PortOpts, c \in CredOpts, m \in ModeOpts }

\* int() of a stored port, line 100: the number, or ValueError
ParseInt(text) == CASE text = "587" -> [raised |-> FALSE, value |-> 587]
                    [] text = "0" -> [raised |-> FALSE, value |-> 0]
                    [] OTHER -> [raised |-> TRUE, value |-> 0]

None == [none |-> TRUE, smtp_server |-> "", smtp_port |-> 0,
         email |-> "", has_email |-> FALSE, password |-> "", has_password |-> FALSE,
         mode |-> ""]

(***************************************************************************)
(* get_user_config, lines 92-109: the decoded configuration, or None when  *)
(* the hash is empty or anything in the try block raised.  `raised` is the *)
(* exception that leaves the function.                                     *)
(***************************************************************************)
Decoded(hash, k) ==
    LET port == ParseInt(Get(hash, "smtp_port", "0"))
        em == IF HasField(hash, "email") THEN decrypt_data(k, hash["email"])
                                         ELSE [raised |-> "", value |-> ""]
        pw == IF HasField(hash, "password") THEN decrypt_data(k, hash["password"])
                                            ELSE [raised |-> "", value |-> ""]
    IN  [error |-> IF port.raised THEN "ValueError"
                   ELSE IF em.raised # "" THEN em.raised
                   ELSE pw.raised,
         config |-> [none |-> FALSE,
                     smtp_server |-> Get(hash, "smtp_server", ""),
                     smtp_port |-> port.value,
                     email |-> em.value, has_email |-> HasField(hash, "email"),
                     password |-> pw.value, has_password |-> HasField(hash, "password"),
                     mode |-> Get(hash, "mode", "")]]

get_user_config(hash, k, store_ok) ==
    IF ~store_ok THEN [raised |-> "", value |-> None]
    ELSE IF hash = EmptyHash THEN [raised |-> "", value |-> None]
    ELSE IF Decoded(hash, k).error # "" THEN [raised |-> "", value |-> None]
    ELSE [raised |-> "", value |-> Decoded(hash, k).config]

(***************************************************************************)
(* track_stat, lines 120-124: the counters after the call, and whether an  *)
(* exception leaves the function.  incr_ok is whether the store's INCR     *)
(* went through.                                                           *)
(***************************************************************************)
Metrics == {"emails_sent", "users_active"}

track_stat_reraise(counters, metric, incr_ok) ==
    [stats |-> IF incr_ok THEN [counters EXCEPT ![metric] = @ + 1] ELSE counters,
     raised |-> ~incr_ok]

track_stat(counters, metric, incr_ok) ==
    [stats |-> IF incr_ok THEN [counters EXCEPT ![metric] = @ + 1] ELSE counters,
     raised |-> FALSE]

(***************************************************************************)
(* send_email, lines 127-151.                                              *)
(***************************************************************************)
MAX_ATTACHMENT_SIZE == 20 * 1024 * 1024

\* the attachment lists tried: each entry is the size in bytes of one file
AttachmentSets == { << >>,
                    << MAX_ATTACHMENT_SIZE - 1, 1 >>,
                    << MAX_ATTACHMENT_SIZE, 1 >> }

RECURSIVE TotalSize(_)
TotalSize(attachments) ==
    IF attachments = << >> THEN 0
    ELSE Head(attachments) + TotalSize(Tail(attachments))

\* line 129: the only test made before the message is built
NotConfiguredNoneOnly(config) == config.none

NotConfigured(config) == config.none \/ config.smtp_server = ""

\* lines 132-145: the body part and one part per attachment, none refused
ComposeMessage(config, to, attachments) ==
    [from |-> config.email, to |-> to,
     parts |-> 1 + Len(attachments), size |-> TotalSize(attachments)]

\* lines 147-150: the commands of the with block, in program order
SmtpOrderLoginFirst == << "connect", "login", "starttls", "send_message" >>

SmtpOrder == << "connect", "starttls", "login", "send_message" >>

\* where the mail server or the network may make a command fail
FailPoints == { "none", "connect", "starttls", "login", "send_message" }
\* the server's answer to the QUIT that leaving the with block sends:
\* 221, another code (SMTPResponseException), or a dropped connection (ignored)
QuitOutcomes == { "ok", "badcode", "disconnected" }

\* the commands issued from the i-th on; an exception ends the block
RECURSIVE RunBlock(_, _, _)
RunBlock(i, fail_at, can_login) ==
    IF i > Len(SmtpOrder) THEN << >>
    ELSE LET c == SmtpOrder[i]
             ok == ~(fail_at = c \/ (c = "login" /\ ~can_login))
         IN  << [cmd |-> c, ok |-> ok] >> \o
             (IF ok THEN RunBlock(i + 1, fail_at, can_login) ELSE << >>)

Issued(session, c) == \E i \in 1..Len(session) : session[i].cmd = c
Succeeded(session, c) == \E i \in 1..Len(session) : session[i].cmd = c /\ session[i].ok

\* the whole with statement: __exit__ sends QUIT once the constructor has connected
SmtpSession(fail_at, can_login, quit) ==
    LET body == RunBlock(1, fail_at, can_login)
    IN  IF Succeeded(body, "connect")
          THEN body \o << [cmd |-> "quit", ok |-> quit = "ok"] >>
          ELSE body

BodyOk(session) == \A c \in {"connect", "starttls", "login", "send_message"} :
                      Succeeded(session, c)

\* the exception that leaves the with statement ("" when none does)
SessionErrorSwallowed(session, quit) == ""

SessionError(session, quit) ==
    IF Issued(session, "quit") /\ quit = "badcode" THEN "SMTPResponseException"
    ELSE IF ~BodyOk(session) THEN "SMTPException"
    ELSE ""

\* login(None, ...) cannot succeed: a credential the hash lacks is None
CanLogin(config) == config.has_email /\ config.has_password

\* the outcomes the environment can give to the steps that are taken: QUIT is
\* sent only on a connected session, INCR only when the with statement returned
QuitAnswers(fail_at) == IF fail_at = "connect" THEN { "ok" } ELSE QuitOutcomes
IncrAnswers(fail_at, can_login, quit) ==
    IF SessionError(SmtpSession(fail_at, can_login, quit), quit) = ""
      THEN BOOLEAN ELSE { TRUE }

NoCall == [op |-> "none", proc |-> 0, user |-> 0, raised |-> "", smtp |-> << >>,
           login_as |-> << >>, size |-> 0, parts |-> 0, stat_failed |-> FALSE,
           before |-> 0, response |-> "", buttons |-> 0]

send_email(p, u) ==
    /\ pc[p] = "done"
    /\ calls < MaxCalls
    /\ \E store_ok \in BOOLEAN :
        LET got == get_user_config(user_hash[u], cipher_suite[p], store_ok)
            config == got.value
            call == [NoCall EXCEPT !.op = "send_email", !.proc = p, !.user = u,
                                   !.before = stats["emails_sent"]]
        IN  IF got.raised # ""
              THEN /\ last' = [call EXCEPT !.raised = got.raised]
                   /\ UNCHANGED << stats, accepted >>
            ELSE IF NotConfigured(config)
              THEN /\ last' = [call EXCEPT !.raised = "SMTP not configured"]
                   /\ UNCHANGED << stats, accepted >>
            ELSE \E attachments \in AttachmentSets, fail_at \in FailPoints :
                 \E quit \in QuitAnswers(fail_at) :
                 \E incr_ok \in IncrAnswers(fail_at, CanLogin(config), quit) :
                LET msg == ComposeMessage(config, "b@example.com", attachments)
                    session == SmtpSession(fail_at, CanLogin(config), quit)
                    error == SessionError(session, quit)
                    t == track_stat(stats, "emails_sent", incr_ok)
                IN  /\ accepted' = IF Succeeded(session, "send_message")
                                     THEN accepted + 1 ELSE accepted
                    /\ stats' = IF error = "" THEN t.stats ELSE stats
                    /\ last' = [call EXCEPT
                           !.smtp = session,
                           !.login_as = IF Issued(session, "login")
                                          THEN << config.email, config.password >>
                                          ELSE << >>,
                           !.size = msg.size,
                           !.parts = msg.parts,
                           !.stat_failed = error = "" /\ ~incr_ok,
                           !.raised = IF error # "" THEN error
                                      ELSE IF t.raised THEN "StatError" ELSE ""]
    /\ calls' = calls + 1
    /\ UNCHANGED << user_hash, temp, flow >>
    /\ UNCHANGED keyVars

(***************************************************************************)
(* start_handler, lines 153-171.                                           *)
(***************************************************************************)
start_handler(p, u) ==
    /\ pc[p] = "done"
    /\ calls < MaxCalls
    /\ \E incr_ok \in BOOLEAN :
        LET t == track_stat(stats, "users_active", incr_ok)
            call == [NoCall EXCEPT !.op = "start_handler", !.proc = p, !.user = u,
                                   !.before = stats["emails_sent"],
                                   !.stat_failed = ~incr_ok]
        IN  /\ stats' = t.stats
            /\ last' = IF t.raised
                         THEN [call EXCEPT !.raised = "StatError"]
                         ELSE [call EXCEPT !.response = "welcome", !.buttons = 4]
    /\ calls' = calls + 1
    /\ UNCHANGED << user_hash, temp, accepted, flow >>
    /\ UNCHANGED keyVars

(***************************************************************************)
(* Chat events.  The handlers registered are the three NewMessage patterns *)
(* of lines 153, 173 and 187; nothing is registered for a button press or  *)
(* for any other text.                                                     *)
(***************************************************************************)
Buttons == { "configure", "send_email", "check_inbox", "help" }
SixInputs == << "smtp.example.com", "587", "imap.example.com", "993",
                "a@example.com", "secret" >>
Texts == { "/start" } \cup { SixInputs[i] : i \in 1..Len(SixInputs) }

\* the handler whose pattern matches the text ("" when none does)
Registered(text) == CASE text = "/start" -> "start_handler"
                      [] text = "/logs" -> "logs_handler"
                      [] text = "/users" -> "users_handler"
                      [] OTHER -> ""

\* a button press reaches the process: no handler runs.  flow records that
\* the user has asked to configure (0) or has left the set-up (-1).
CallbackQuery(u) ==
    /\ \E data \in Buttons :
          flow' = [flow EXCEPT ![u] = IF data = "configure" THEN 0 ELSE -1]
    /\ UNCHANGED << user_hash, temp, stats, last, accepted, calls >>
    /\ UNCHANGED keyVars

\* a text message reaches process p.  flow counts the set-up inputs the
\* user has sent in order since pressing "configure".
NewMessage(p, u) ==
    \E text \in Texts :
        IF Registered(text) = "start_handler"
          THEN start_handler(p, u)
          ELSE /\ pc[p] = "done"
               /\ flow' = [flow EXCEPT ![u] =
                              IF @ \in 0..(Len(SixInputs) - 1) /\ text = SixInputs[@ + 1]
                                THEN @ + 1 ELSE -1]
               /\ UNCHANGED << user_hash, temp, stats, last, accepted, calls >>
               /\ UNCHANGED keyVars

(***************************************************************************)
(* Specifications.                                                         *)
(***************************************************************************)
InitBot ==
    /\ user_hash \in [Users -> StoredHashes]
    /\ temp = [u \in Users |-> EmptyHash]
    /\ stats = [m \in Metrics |-> 0]
    /\ last = NoCall
    /\ accepted = 0
    /\ calls = 0
    /\ flow = [u \in Users |-> -1]

\* processes about to import the module, against any store; ENCRYPTION_KEY is
\* unset, empty, or the one key the deployment was given
InitKey ==
    /\ fernet_key \in { Nil, Empty, Bad, StoredKey }
    /\ environ \in [Procs -> { Nil, Empty, EnvKey(1) }]
    /\ pc = [p \in Procs |-> "init"]
    /\ key = [p \in Procs |-> Nil]
    /\ cipher_suite = [p \in Procs |-> Nil]
    /\ ncalls = [p \in Procs |-> 0]
    /\ generated = 0
    /\ prev = [p \in Procs |-> Nil]
    /\ foreign = [p \in Procs |-> FALSE]

\* processes that have imported the module: both generated a key against an
\* empty store, one after the other (same key) or at once (the later write stays)
InitRunning ==
    /\ \/ /\ fernet_key = K1
          /\ cipher_suite = [p \in Procs |-> K1]
          /\ generated = 1
       \/ /\ fernet_key = K2
          /\ cipher_suite = [p \in Procs |-> GenKey(p)]
          /\ generated = 2
    /\ environ = [p \in Procs |-> Nil]
    /\ pc = [p \in Procs |-> "done"]
    /\ key = [p \in Procs |-> Nil]
    /\ ncalls = [p \in Procs |-> 1]
    /\ prev = [p \in Procs |-> Nil]
    /\ foreign = [p \in Procs |-> FALSE]

\* key set-up of the processes sharing one store
InitSetup == InitKey /\ InitBot /\ user_hash = [u \in Users |-> EmptyHash]
NextSetup == \E p \in Procs : SetupCall(p) \/ SetupGet(p) \/ SetupFinish(p)
SpecSetup == InitSetup /\ [][NextSetup]_vars

\* the handlers of running processes
Init == InitRunning /\ InitBot
Next == \E p \in Procs, u \in Users : send_email(p, u) \/ start_handler(p, u)
Spec == Init /\ [][Next]_vars

\* the chat events a running process receives
NextChat == \E p \in Procs, u \in Users : CallbackQuery(u) \/ NewMessage(p, u)
SpecChat == Init /\ [][NextChat]_vars

(***************************************************************************)
(* Properties of send_email and start_handler (under Spec).                *)
(***************************************************************************)
LastHash == user_hash[last.user]
LastKey == cipher_suite[last.proc]
ServerOf(hash) == Get(hash, "smtp_server", "")

\* C1: a send_email for a user whose hash is missing, or whose smtp_server is
\* empty, raises without a single mail-server command having been issued, and
\* leaves the emails_sent counter at the value it had before the call.
C1_UnconfiguredFailsBeforeSmtp ==
    (last.op = "send_email" /\ (LastHash = EmptyHash \/ ServerOf(LastHash) = ""))
        => /\ last.raised = "SMTP not configured"
           /\ last.smtp = << >>
           /\ stats["emails_sent"] = last.before

\* C1 happens: a stored, otherwise complete hash with an empty smtp_server.
C1_Witness ==
    /\ last.op = "send_email"
    /\ HasField(LastHash, "smtp_server") /\ LastHash["smtp_server"] = ""
    /\ Get(LastHash, "mode", "") = "configured"
    /\ Decoded(LastHash, LastKey).error = ""
    /\ last.raised = "SMTP not configured"

\* C2: a send_email for a user whose hash has a non-empty smtp_server but whose
\* mode is not "configured" raises the not-configured error without a single
\* mail-server command having been issued.
C2_ModeIsRequired ==
    (last.op = "send_email" /\ ServerOf(LastHash) # ""
                            /\ Get(LastHash, "mode", "") # "configured")
        => /\ last.raised = "SMTP not configured"
           /\ last.smtp = << >>

\* C3 as claimed: emails_sent always equals the number of messages the mail
\* server has accepted.
C3_CounterEqualsAccepted == stats["emails_sent"] = accepted

\* C3 as amended: a send_email call raises emails_sent by exactly 1 when it
\* returns normally and the store's increment went through, and by 0 in every
\* other case; the counter never exceeds the number of accepted messages.
C3_CounterCountsReturnedSends ==
    /\ stats["emails_sent"] <= accepted
    /\ last.op = "send_email" =>
          stats["emails_sent"] =
              last.before + (IF last.raised = "" /\ ~last.stat_failed THEN 1 ELSE 0)
    /\ (last.op = "send_email" /\ last.raised = "") => Succeeded(last.smtp, "send_message")

\* C3 happens: two messages accepted, the second send returned normally and
\* was counted, the first was not.
C3_Witness ==
    /\ last.op = "send_email" /\ last.raised = "" /\ ~last.stat_failed
    /\ accepted = 2
    /\ last.before = 0
    /\ stats["emails_sent"] = 1

\* C4: a send_email whose attachments total more than MAX_ATTACHMENT_SIZE bytes
\* is refused before any mail-server command is issued; a total of exactly
\* MAX_ATTACHMENT_SIZE is not refused.
C4_OversizeRejectedBeforeSmtp ==
    last.op = "send_email" =>
        /\ last.size > MAX_ATTACHMENT_SIZE =>
              (last.raised = "AttachmentTooLarge" /\ last.smtp = << >>)
        /\ last.size = MAX_ATTACHMENT_SIZE => last.raised # "AttachmentTooLarge"

\* C5: when the stored email or password cannot be decrypted under the
\* process's key, send_email fails with the decryption error, not with the
\* error of a user who never configured.
C5_DecryptionErrorReachesCaller ==
    (last.op = "send_email" /\ ServerOf(LastHash) # ""
                            /\ Decoded(LastHash, LastKey).error = "InvalidToken")
        => last.raised = "InvalidToken"

\* C7: the mail-server commands of one send_email are connect, STARTTLS, login,
\* send, in that order and each only after the one before it succeeded; login
\* is made with the decrypted credentials; after a command fails the call
\* raises and nothing but the closing QUIT follows.
C7_SmtpStepsInOrder ==
    last.op = "send_email" =>
        LET s == last.smtp
            After(i, c, before) ==
                s[i].cmd = c => (i > 1 /\ s[i - 1].cmd = before /\ s[i - 1].ok)
        IN  /\ \A i \in 1..Len(s) :
                /\ s[i].cmd = "connect" => i = 1
                /\ After(i, "starttls", "connect")
                /\ After(i, "login", "starttls")
                /\ After(i, "send_message", "login")
                /\ (~s[i].ok /\ s[i].cmd # "quit") =>
                       /\ last.raised # ""
                       /\ \A j \in (i + 1)..Len(s) : s[j].cmd = "quit"
            /\ Succeeded(s, "login") =>
                /\ LastHash["email"] = Token(LastKey, last.login_as[1])
                /\ LastHash["password"] = Token(LastKey, last.login_as[2])

\* C7 happens: a whole session, from connect to the accepted message.
C7_Witness ==
    /\ last.op = "send_email"
    /\ Len(last.smtp) = 5
    /\ Succeeded(last.smtp, "send_message")
    /\ last.login_as = << "a@example.com", "secret" >>
    /\ last.raised = ""

\* C8: when the store's increment fails inside track_stat, the handler that
\* called it is not failed by it: send_email returns normally after the server
\* accepted the message, and start_handler sends its welcome response.
C8_StatFailureIsolated ==
    last.stat_failed =>
        /\ last.raised = ""
        /\ last.op = "send_email" => Succeeded(last.smtp, "send_message")
        /\ last.op = "start_handler" => (last.response = "welcome" /\ last.buttons = 4)

\* C8 happens: a send whose increment failed (accepted, not counted), then a
\* /start whose increment failed as well.
C8_Witness ==
    /\ last.op = "start_handler" /\ last.stat_failed
    /\ accepted = 1
    /\ stats = [m \in Metrics |-> 0]

(***************************************************************************)
(* Properties of the key set-up (under SpecSetup).                         *)
(***************************************************************************)
Done(p) == pc[p] = "done"

\* C6: all processes that have completed setup_encryption hold the same key,
\* and that key is the store's fernet_key entry whenever the entry holds one.
C6_OneKeyPerStore ==
    \A p, q \in Procs :
        (Done(p) /\ Done(q)) =>
            /\ cipher_suite[p] = cipher_suite[q]
            /\ Truthy(fernet_key) => cipher_suite[p] = fernet_key

\* C10: a process's second call of setup_encryption returns the key its
\* previous call returned, provided no other process wrote the store's entry
\* since the process first called.
C10_SecondCallSameKey ==
    \A p \in Procs :
        (Done(p) /\ prev[p] # Nil /\ ~foreign[p]) => cipher_suite[p] = prev[p]

\* C10 happens: the first call generated and persisted the key, the second
\* call has returned.
C10_Witness ==
    \E p \in Procs :
        /\ Done(p) /\ ncalls[p] = 2 /\ ~foreign[p]
        /\ prev[p] # Nil /\ prev[p][1] = "gen"
        /\ fernet_key = prev[p]

(***************************************************************************)
(* Properties of the chat events (under SpecChat).                         *)
(***************************************************************************)
\* C9: once a user has pressed "configure" and sent the six well-formed inputs
\* in order, the store holds that user's hash with mode "configured" and the
\* user's temp hash is gone.
C9_SixInputsCommitConfig ==
    \A u \in Users :
        flow[u] = Len(SixInputs) =>
            /\ Get(user_hash[u], "mode", "") = "configured"
            /\ temp[u] = EmptyHash

====
